---- MODULE Spec2Model ----
(***************************************************************************)
(* Model of the commerce-framework hooks: the customer read hook and the   *)
(* wishlist add-item mutation hook, their default fetchers, and the        *)
(* `extend` operation both hooks expose.                                   *)
(*                                                                         *)
(* A JavaScript object with optional properties is a record whose missing  *)
(* properties hold Absent; object spread is Spread.                        *)
(***************************************************************************)
EXTENDS Naturals, Sequences, FiniteSets, TLC

VARIABLES hooks, extends, calls, reads, transportLog, customer, wishlist, server

vars == <<hooks, extends, calls, reads, transportLog, customer, wishlist, server>>

----------------------------------------------------------------------------
(* Bounds of the exploration *)

\* extend calls in one run
MaxExtends == 2

\* extend calls plus hook invocations in one run
MaxOps == 4

----------------------------------------------------------------------------
(* Values *)

Absent == "absent"

\* wishlist items a caller may add
Items == {"i1"}

\* the body { item } the wishlist fetcher sends for an item
ItemBody(item) == IF item = "i1" THEN "{item:i1}" ELSE "{item:other}"

\* what the transport may answer to the wishlist POST
WishlistData == {"w1", "w2"}

\* what the transport may answer to the customer GET:
\* null, an object without customer, an object with a customer
CustomerResponses == {"null", "{}", "{customer:c1}"}

\* errors the transport may reject with
TransportErrors == {"e1"}

Val(class, value) == [class |-> class, value |-> value]

Pending == Val("Pending", Absent)

\* { ...a, ...b } : properties of b win, the others keep a's value
Spread(a, b) == [k \in DOMAIN a |-> IF b[k] # Absent THEN b[k] ELSE a[k]]

NoFields == [url |-> Absent, method |-> Absent, query |-> Absent, body |-> Absent]

NoSwrOptions == [revalidateOnFocus |-> Absent, refreshInterval |-> Absent]

\* swrOptions an application may pass to extend
SwrOptionSets ==
    { NoSwrOptions,
      [revalidateOnFocus |-> "true", refreshInterval |-> "5000"] }

----------------------------------------------------------------------------
(* The default fetchers *)

defaultOpts_wishlist ==
    [url |-> "/api/bigcommerce/wishlist", method |-> "POST",
     query |-> Absent, body |-> Absent]

defaultOpts_customer ==
    [url |-> "/api/bigcommerce/customers", method |-> "GET",
     query |-> Absent, body |-> Absent]

\* the defaults behind a transport call of the given kind
defaultOpts(kind) ==
    IF kind = "addItem" THEN defaultOpts_wishlist ELSE defaultOpts_customer

\* a fetcher that spreads the options first, so that its defaults win
fetcher_wishlist_DefaultsWin(options, item) ==
    Spread(Spread(options, defaultOpts_wishlist), [NoFields EXCEPT !.body = ItemBody(item)])

\* the request the wishlist fetcher hands to fetch:
\* { ...defaultOpts, ...options, body: { item } }
fetcher_wishlist(options, item) ==
    Spread(Spread(defaultOpts_wishlist, options), [NoFields EXCEPT !.body = ItemBody(item)])

\* the request the customer fetcher hands to fetch: { ...defaultOpts, ...options }
fetcher_customer(options) == Spread(defaultOpts_customer, options)

\* what the customer fetcher returns for a response: data?.customer ?? null
customerOf(data) == IF data = "{customer:c1}" THEN "c1" ELSE "null"

----------------------------------------------------------------------------
(* Custom fetchers an application passes to extend.  Each is written the   *)
(* way the README shows: it returns fetcher(options', input, fetch), where *)
(* options' is the options it received (viaFetcher), a fresh { query }     *)
(* (queryOnly), or the received options with every field overridden        *)
(* (overrideAll).                                                          *)

CustomFetchers == {"viaFetcher", "queryOnly", "overrideAll"}

Fetchers == {"fetcher"} \cup CustomFetchers

\* the options fetcher f passes on to the default fetcher
optionsGiven(f, options) ==
    CASE f = "queryOnly" -> [NoFields EXCEPT !.query = "q"]
      [] f = "overrideAll" -> Spread(options, [url |-> "/custom", method |-> "PUT",
                                               query |-> "q", body |-> "B"])
      [] OTHER -> options

\* the functions entered when f is called, outermost first, down to the
\* fetch argument it was given
traceOf(f, fetch) ==
    IF f = "fetcher" THEN <<"fetcher", fetch>> ELSE <<f, "fetcher", fetch>>

\* the transport function the provider configures
configuredFetch == "fetch"

\* useWishlistAddItem(defaultOpts, customFetcher) returns fn; fn({ item })
\* calls customFetcher(defaultOpts, { item }, fetch)
useWishlistAddItem(options, customFetcher, item) ==
    [options |-> optionsGiven(customFetcher, options),
     req     |-> fetcher_wishlist(optionsGiven(customFetcher, options), item),
     fetch   |-> configuredFetch,
     trace   |-> traceOf(customFetcher, configuredFetch)]

\* useCommerceCustomer(defaultOpts, [], customFetcher, swr) fetches with
\* customFetcher(defaultOpts, [], fetch) under the SWR options swr
useCommerceCustomer(options, customFetcher, swr) ==
    [options |-> optionsGiven(customFetcher, options),
     req     |-> fetcher_customer(optionsGiven(customFetcher, options)),
     fetch   |-> configuredFetch,
     trace   |-> traceOf(customFetcher, configuredFetch),
     swr     |-> swr]

----------------------------------------------------------------------------
(* Hooks *)

extendHook_wishlist_NoExtend(customFetcher) ==
    [kind |-> "wishlist", customFetcher |-> customFetcher, extend |-> "undefined"]

\* extendHook of the wishlist add-item hook
extendHook_wishlist(customFetcher) ==
    [kind |-> "wishlist", customFetcher |-> customFetcher, extend |-> "extendHook"]

extendHook_customer_IgnoresOptions(customFetcher, swrOptions) ==
    [kind |-> "customer", customFetcher |-> customFetcher,
     swrOptions |-> NoSwrOptions, extend |-> "extendHook"]

\* extendHook of the customer hook
extendHook_customer(customFetcher, swrOptions) ==
    [kind |-> "customer", customFetcher |-> customFetcher,
     swrOptions |-> swrOptions, extend |-> "extendHook"]

\* the SWR options the customer hook sets itself
defaultSwr == [revalidateOnFocus |-> "false", refreshInterval |-> Absent]

\* the SWR options useCustomer passes down:
\* { revalidateOnFocus: false, ...swrOptions }
swrOf(hook) == Spread(defaultSwr, hook.swrOptions)

\* indices of the two default exports in hooks
DefaultCustomer == 1
DefaultWishlist == 2

DefaultOf(kind) == IF kind = "customer" THEN DefaultCustomer ELSE DefaultWishlist

Ops == Len(extends) + Len(calls) + Len(reads)

----------------------------------------------------------------------------
(* Initial state: the two modules are loaded, nothing is mounted *)

Init ==
    /\ hooks = << extendHook_customer("fetcher", NoSwrOptions),
                  extendHook_wishlist("fetcher") >>
    /\ extends = << >>
    /\ calls = << >>
    /\ reads = << >>
    /\ transportLog = << >>
    /\ customer = "undefined"
    /\ wishlist = {}
    /\ server = {}

----------------------------------------------------------------------------
(* extend *)

WishlistExtend_KeepsReceiver(h, f) ==
    /\ h \in DOMAIN hooks
    /\ hooks[h].kind = "wishlist"
    /\ hooks[h].extend = "extendHook"
    /\ Len(extends) < MaxExtends
    /\ Ops < MaxOps
    /\ hooks' = Append(hooks, extendHook_wishlist(hooks[h].customFetcher))
    /\ extends' = Append(extends, [recv |-> h, fetcher |-> f,
                                   swrOptions |-> NoSwrOptions,
                                   hook |-> Len(hooks) + 1])
    /\ UNCHANGED <<calls, reads, transportLog, customer, wishlist, server>>

WishlistExtend_MutatesReceiver(h, f) ==
    /\ h \in DOMAIN hooks
    /\ hooks[h].kind = "wishlist"
    /\ hooks[h].extend = "extendHook"
    /\ Len(extends) < MaxExtends
    /\ Ops < MaxOps
    /\ hooks' = Append([hooks EXCEPT ![h].customFetcher = f], extendHook_wishlist(f))
    /\ extends' = Append(extends, [recv |-> h, fetcher |-> f,
                                   swrOptions |-> NoSwrOptions,
                                   hook |-> Len(hooks) + 1])
    /\ UNCHANGED <<calls, reads, transportLog, customer, wishlist, server>>

\* useAddItem.extend(f), the receiver being hook h: extendHook(f)
WishlistExtend(h, f) ==
    /\ h \in DOMAIN hooks
    /\ hooks[h].kind = "wishlist"
    /\ hooks[h].extend = "extendHook"
    /\ Len(extends) < MaxExtends
    /\ Ops < MaxOps
    /\ hooks' = Append(hooks, extendHook_wishlist(f))
    /\ extends' = Append(extends, [recv |-> h, fetcher |-> f,
                                   swrOptions |-> NoSwrOptions,
                                   hook |-> Len(hooks) + 1])
    /\ UNCHANGED <<calls, reads, transportLog, customer, wishlist, server>>

CustomerExtend_InheritsOptions(h, f, E) ==
    /\ h \in DOMAIN hooks
    /\ hooks[h].kind = "customer"
    /\ hooks[h].extend = "extendHook"
    /\ Len(extends) < MaxExtends
    /\ Ops < MaxOps
    /\ hooks' = Append(hooks, extendHook_customer(f, Spread(hooks[h].swrOptions, E)))
    /\ extends' = Append(extends, [recv |-> h, fetcher |-> f, swrOptions |-> E,
                                   hook |-> Len(hooks) + 1])
    /\ UNCHANGED <<calls, reads, transportLog, customer, wishlist, server>>

\* useCustomer.extend(f, E), the receiver being hook h: extendHook(f, E)
CustomerExtend(h, f, E) ==
    /\ h \in DOMAIN hooks
    /\ hooks[h].kind = "customer"
    /\ hooks[h].extend = "extendHook"
    /\ Len(extends) < MaxExtends
    /\ Ops < MaxOps
    /\ hooks' = Append(hooks, extendHook_customer(f, E))
    /\ extends' = Append(extends, [recv |-> h, fetcher |-> f, swrOptions |-> E,
                                   hook |-> Len(hooks) + 1])
    /\ UNCHANGED <<calls, reads, transportLog, customer, wishlist, server>>

----------------------------------------------------------------------------
(* The customer read hook *)

\* a component mounts customer hook h: the fetch is issued
useCustomer(h) ==
    /\ h \in DOMAIN hooks
    /\ hooks[h].kind = "customer"
    /\ Ops < MaxOps
    /\ LET inv == useCommerceCustomer(defaultOpts_customer,
                                      hooks[h].customFetcher, swrOf(hooks[h]))
       IN /\ reads' = Append(reads, [hook |-> h, inv |-> inv, pc |-> "loading",
                                     data |-> Pending])
          /\ transportLog' = Append(transportLog,
                 [kind |-> "customer", id |-> Len(reads) + 1,
                  item |-> Absent, options |-> inv.options, req |-> inv.req])
    /\ UNCHANGED <<hooks, extends, calls, customer, wishlist, server>>

\* what a customer read returns for a transport outcome: the fetcher maps
\* a response, a rejection passes through
customerResult(outcome) ==
    IF outcome.class = "Data" THEN Val("Data", customerOf(outcome.value))
    ELSE outcome

\* the transport answers read r; the fetcher's result becomes the cached
\* customer, a rejection leaves the cached customer as it is
CustomerSettle(r, outcome) ==
    /\ r \in DOMAIN reads
    /\ reads[r].pc = "loading"
    /\ reads' = [reads EXCEPT ![r].pc = "done", ![r].data = customerResult(outcome)]
    /\ customer' = IF outcome.class = "Data" THEN customerOf(outcome.value)
                   ELSE customer
    /\ UNCHANGED <<hooks, extends, calls, transportLog, wishlist, server>>

----------------------------------------------------------------------------
(* The wishlist add-item mutation hook *)

PreconditionError == Val("CommerceError", "Signed customer not found")

\* addItem without the customer check
addItem_NoPrecondition(h, item) ==
    /\ h \in DOMAIN hooks
    /\ hooks[h].kind = "wishlist"
    /\ item \in Items
    /\ Ops < MaxOps
    /\ LET inv == useWishlistAddItem(defaultOpts_wishlist,
                                     hooks[h].customFetcher, item)
       IN /\ calls' = Append(calls,
                 [hook |-> h, item |-> item, customer |-> customer,
                  pc |-> "awaitFn", inv |-> inv, sent |-> 1,
                  outcome |-> Pending, revalidation |-> Pending,
                  settled |-> Pending,
                  events |-> <<"transportInvoked">>])
          /\ transportLog' = Append(transportLog,
                 [kind |-> "addItem", id |-> Len(calls) + 1,
                  item |-> item, options |-> inv.options, req |-> inv.req])
    /\ UNCHANGED <<hooks, extends, reads, customer, wishlist, server>>

\* addItem that shares the transport call of a call already in flight for
\* the same item
addItem_Deduplicated(h, item) ==
    /\ h \in DOMAIN hooks
    /\ hooks[h].kind = "wishlist"
    /\ item \in Items
    /\ Ops < MaxOps
    /\ IF customer \in {"undefined", "null"}
       THEN /\ calls' = Append(calls,
                   [hook |-> h, item |-> item, customer |-> customer,
                    pc |-> "rejected", sent |-> 0,
                    outcome |-> Pending, revalidation |-> Pending,
                    settled |-> PreconditionError,
                    events |-> <<"rejected">>])
            /\ UNCHANGED transportLog
       ELSE LET inv == useWishlistAddItem(defaultOpts_wishlist,
                                          hooks[h].customFetcher, item)
                shared == \E c \in DOMAIN calls :
                              calls[c].pc = "awaitFn" /\ calls[c].item = item
            IN /\ calls' = Append(calls,
                      [hook |-> h, item |-> item, customer |-> customer,
                       pc |-> "awaitFn", inv |-> inv,
                       sent |-> IF shared THEN 0 ELSE 1,
                       outcome |-> Pending, revalidation |-> Pending,
                       settled |-> Pending,
                       events |-> <<"transportInvoked">>])
               /\ transportLog' =
                      IF shared THEN transportLog
                      ELSE Append(transportLog,
                               [kind |-> "addItem", id |-> Len(calls) + 1,
                                item |-> item, options |-> inv.options,
                                req |-> inv.req])
    /\ UNCHANGED <<hooks, extends, reads, customer, wishlist, server>>

\* addItem(item) on wishlist hook h, up to its first await: the customer
\* check, then fn({ item }), which reaches the transport before it returns
addItem(h, item) ==
    /\ h \in DOMAIN hooks
    /\ hooks[h].kind = "wishlist"
    /\ item \in Items
    /\ Ops < MaxOps
    /\ IF customer \in {"undefined", "null"}
       THEN /\ calls' = Append(calls,
                   [hook |-> h, item |-> item, customer |-> customer,
                    pc |-> "rejected", sent |-> 0,
                    outcome |-> Pending, revalidation |-> Pending,
                    settled |-> PreconditionError,
                    events |-> <<"rejected">>])
            /\ UNCHANGED transportLog
       ELSE LET inv == useWishlistAddItem(defaultOpts_wishlist,
                                          hooks[h].customFetcher, item)
            IN /\ calls' = Append(calls,
                      [hook |-> h, item |-> item, customer |-> customer,
                       pc |-> "awaitFn", inv |-> inv, sent |-> 1,
                       outcome |-> Pending, revalidation |-> Pending,
                       settled |-> Pending,
                       events |-> <<"transportInvoked">>])
               /\ transportLog' = Append(transportLog,
                      [kind |-> "addItem", id |-> Len(calls) + 1,
                       item |-> item, options |-> inv.options, req |-> inv.req])
    /\ UNCHANGED <<hooks, extends, reads, customer, wishlist, server>>

\* the transport settles the request of call c; a success has added the
\* item on the server
TransportSettle(c, outcome) ==
    /\ c \in DOMAIN calls
    /\ calls[c].pc = "awaitFn"
    /\ calls' = [calls EXCEPT ![c].pc = "fnSettled", ![c].outcome = outcome,
                     ![c].events = Append(@, "transportSettled")]
    /\ server' = IF outcome.class = "Data" THEN server \cup {calls[c].item}
                 ELSE server
    /\ UNCHANGED <<hooks, extends, reads, transportLog, customer, wishlist>>

\* the continuation that returns the data without awaiting revalidate()
ResumeAfterFn_NoAwait(c) ==
    /\ c \in DOMAIN calls
    /\ calls[c].pc = "fnSettled"
    /\ IF calls[c].outcome.class = "Data"
       THEN calls' = [calls EXCEPT ![c].pc = "awaitRevalidate",
                          ![c].settled = calls[c].outcome,
                          ![c].events = @ \o <<"revalidateStarted", "resolved">>]
       ELSE calls' = [calls EXCEPT ![c].pc = "rejected",
                          ![c].settled = calls[c].outcome,
                          ![c].events = Append(@, "rejected")]
    /\ UNCHANGED <<hooks, extends, reads, transportLog, customer, wishlist, server>>

\* the continuation that wraps a transport error in a CommerceError
ResumeAfterFn_WrapsError(c) ==
    /\ c \in DOMAIN calls
    /\ calls[c].pc = "fnSettled"
    /\ IF calls[c].outcome.class = "Data"
       THEN calls' = [calls EXCEPT ![c].pc = "awaitRevalidate",
                          ![c].events = Append(@, "revalidateStarted")]
       ELSE calls' = [calls EXCEPT ![c].pc = "rejected",
                          ![c].settled = Val("CommerceError", calls[c].outcome.value),
                          ![c].events = Append(@, "rejected")]
    /\ UNCHANGED <<hooks, extends, reads, transportLog, customer, wishlist, server>>

\* addItem continues after `await fn(...)`: a rejection is thrown on, a
\* result is kept and revalidate() is called
ResumeAfterFn(c) ==
    /\ c \in DOMAIN calls
    /\ calls[c].pc = "fnSettled"
    /\ IF calls[c].outcome.class = "Data"
       THEN calls' = [calls EXCEPT ![c].pc = "awaitRevalidate",
                          ![c].events = Append(@, "revalidateStarted")]
       ELSE calls' = [calls EXCEPT ![c].pc = "rejected",
                          ![c].settled = calls[c].outcome,
                          ![c].events = Append(@, "rejected")]
    /\ UNCHANGED <<hooks, extends, reads, transportLog, customer, wishlist, server>>

\* the revalidation started by call c settles: a fetched wishlist replaces
\* the cached one, a failed fetch leaves it; revalidate() itself resolves
RevalidateSettle(c, ok) ==
    /\ c \in DOMAIN calls
    /\ calls[c].pc = "awaitRevalidate"
    /\ calls' = [calls EXCEPT ![c].pc = "revalidateSettled",
                     ![c].revalidation = IF ok THEN Val("Data", "wishlist")
                                         ELSE Val("TransportError", "e1"),
                     ![c].events = Append(@, "revalidateSettled")]
    /\ wishlist' = IF ok THEN server ELSE wishlist
    /\ UNCHANGED <<hooks, extends, reads, transportLog, customer, server>>

\* addItem continues after `await revalidate()`: return data
ResumeAfterRevalidate(c) ==
    /\ c \in DOMAIN calls
    /\ calls[c].pc = "revalidateSettled"
    /\ calls' = [calls EXCEPT ![c].pc = "resolved",
                     ![c].settled = calls[c].outcome,
                     ![c].events = Append(@, "resolved")]
    /\ UNCHANGED <<hooks, extends, reads, transportLog, customer, wishlist, server>>

----------------------------------------------------------------------------

Next ==
    \/ \E h \in DOMAIN hooks, f \in CustomFetchers : WishlistExtend(h, f)
    \/ \E h \in DOMAIN hooks, f \in CustomFetchers, E \in SwrOptionSets :
           CustomerExtend(h, f, E)
    \/ \E h \in DOMAIN hooks : useCustomer(h)
    \/ \E r \in DOMAIN reads, d \in CustomerResponses :
           CustomerSettle(r, Val("Data", d))
    \/ \E r \in DOMAIN reads, e \in TransportErrors :
           CustomerSettle(r, Val("TransportError", e))
    \/ \E h \in DOMAIN hooks, item \in Items : addItem(h, item)
    \/ \E c \in DOMAIN calls, d \in WishlistData :
           TransportSettle(c, Val("Data", d))
    \/ \E c \in DOMAIN calls, e \in TransportErrors :
           TransportSettle(c, Val("TransportError", e))
    \/ \E c \in DOMAIN calls : ResumeAfterFn(c)
    \/ \E c \in DOMAIN calls, ok \in BOOLEAN : RevalidateSettle(c, ok)
    \/ \E c \in DOMAIN calls : ResumeAfterRevalidate(c)

Spec == Init /\ [][Next]_vars

----------------------------------------------------------------------------
(* Helpers of the properties *)

Range(seq) == {seq[i] : i \in DOMAIN seq}

IsPrefix(s, t) == Len(s) <= Len(t) /\ SubSeq(t, 1, Len(s)) = s

\* the extend call that made hook h (h is not a default export)
ExtendOf(h) == extends[h - 2]

Extended == {h \in DOMAIN hooks : h > 2}

\* the transport invocations made by addItem call c
SentBy(c) == {i \in DOMAIN transportLog :
                 transportLog[i].kind = "addItem" /\ transportLog[i].id = c}

\* calls that passed the customer check
Admitted == {c \in DOMAIN calls : calls[c].customer = "c1"}

\* every invocation of a fetcher so far: the hook and what was called
Invocations ==
    {[hook |-> calls[c].hook, inv |-> calls[c].inv] : c \in Admitted}
    \cup {[hook |-> reads[r].hook, inv |-> [options |-> reads[r].inv.options,
                                             req |-> reads[r].inv.req,
                                             fetch |-> reads[r].inv.fetch,
                                             trace |-> reads[r].inv.trace]] :
             r \in DOMAIN reads}

SuccessOrder ==
    <<"transportInvoked", "transportSettled", "revalidateStarted",
      "revalidateSettled", "resolved">>

\* what a hook does when invoked: the request it issues per input, the
\* result per transport outcome, the SWR options it runs with
Behaviour(hook) ==
    IF hook.kind = "customer"
    THEN [req |-> useCommerceCustomer(defaultOpts_customer, hook.customFetcher,
                                      swrOf(hook)).req,
          result |-> [o \in {Val("Data", d) : d \in CustomerResponses}
                             \cup {Val("TransportError", e) : e \in TransportErrors}
                         |-> customerResult(o)],
          swr |-> swrOf(hook)]
    ELSE [req |-> [i \in Items |->
                      useWishlistAddItem(defaultOpts_wishlist,
                                         hook.customFetcher, i).req],
          result |-> "transport outcome",
          swr |-> "none"]

\* extend calls made with the identity transform and no extra options
IdentityExtends ==
    {i \in DOMAIN extends :
        extends[i].fetcher = "viaFetcher" /\ extends[i].swrOptions = NoSwrOptions}

----------------------------------------------------------------------------
(* Properties *)

\* C1: an addItem call made while the customer read holds no customer
\* (undefined or null) is rejected with CommerceError "Signed customer not
\* found" in the step of the call itself, has invoked the transport zero
\* times and has started no revalidation.
C1_PreconditionRejects ==
    \A c \in DOMAIN calls :
        calls[c].customer \in {"undefined", "null"} =>
            /\ calls[c].pc = "rejected"
            /\ calls[c].settled = Val("CommerceError", "Signed customer not found")
            /\ calls[c].events = <<"rejected">>
            /\ calls[c].revalidation = Pending
            /\ SentBy(c) = {}

C1_Witness ==
    \E c, d \in DOMAIN calls :
        /\ calls[c].customer = "null"
        /\ calls[d].customer = "undefined"
        /\ calls[c].pc = "rejected"

\* C2: an admitted addItem call whose transport succeeded goes through
\* transport settled, revalidation started, revalidation settled, resolved,
\* in this order; it is unsettled while its revalidation is in flight, it
\* resolves with the transport's result, and once it has resolved after a
\* successful revalidation the cached wishlist holds its item.
C2_SuccessOrdering ==
    \A c \in Admitted :
        calls[c].outcome.class = "Data" =>
            /\ IsPrefix(calls[c].events, SuccessOrder)
            /\ calls[c].pc = "awaitRevalidate" => calls[c].settled = Pending
            /\ calls[c].settled # Pending =>
                   /\ calls[c].events = SuccessOrder
                   /\ calls[c].settled = calls[c].outcome
                   /\ calls[c].revalidation # Pending
                   /\ calls[c].revalidation.class = "Data" =>
                          calls[c].item \in wishlist

C2_Witness ==
    \E c \in Admitted :
        /\ calls[c].pc = "resolved"
        /\ calls[c].settled = Val("Data", "w2")
        /\ calls[c].revalidation.class = "Data"

\* C9: every admitted addItem call has invoked the transport exactly once,
\* whatever the other calls do; a settled call carries the outcome of its
\* own transport invocation, and a resolved call has started its
\* revalidation after its own transport success and seen it settle.
C9_CallsIndependent ==
    /\ \A c \in Admitted : Cardinality(SentBy(c)) = 1 /\ calls[c].sent = 1
    /\ Cardinality({i \in DOMAIN transportLog : transportLog[i].kind = "addItem"})
           = Cardinality(Admitted)
    /\ \A c \in Admitted :
           calls[c].settled # Pending =>
               /\ calls[c].settled = calls[c].outcome
               /\ calls[c].pc = "resolved" =>
                      /\ calls[c].outcome.class = "Data"
                      /\ SubSeq(calls[c].events, 2, 4) =
                             <<"transportSettled", "revalidateStarted",
                               "revalidateSettled">>

C9_Witness ==
    \E c, d \in Admitted :
        /\ d < c
        /\ calls[c].pc = "resolved"
        /\ calls[d].pc \in {"awaitFn", "fnSettled", "awaitRevalidate"}

\* C10: an admitted addItem call whose transport rejected with e is
\* unsettled until its continuation runs and then rejected with that same
\* e; it never starts a revalidation and has invoked the transport once.
C10_TransportFailure ==
    \A c \in Admitted :
        calls[c].outcome.class = "TransportError" =>
            /\ calls[c].pc \in {"fnSettled", "rejected"}
            /\ calls[c].pc = "fnSettled" => calls[c].settled = Pending
            /\ calls[c].pc = "rejected" => calls[c].settled = calls[c].outcome
            /\ "revalidateStarted" \notin Range(calls[c].events)
            /\ calls[c].revalidation = Pending
            /\ Cardinality(SentBy(c)) = 1

C10_Witness ==
    \E c \in Admitted :
        calls[c].pc = "rejected" /\ calls[c].settled = Val("TransportError", "e1")

\* C3 as stated: whenever a hook made by extend(f2) on a receiver that was
\* itself made by extend(f1) is invoked, f1 is entered.
C3_Original_Layered ==
    \A v \in Invocations :
        (v.hook \in Extended /\ ExtendOf(v.hook).recv \in Extended) =>
            ExtendOf(ExtendOf(v.hook).recv).fetcher \in Range(v.inv.trace)

\* C3 amended: invoking a hook made by extend(f2) enters f2 first and hands
\* it the configured transport as its fetch argument; besides f2, only the
\* default fetcher (which f2 calls itself) and the transport are entered,
\* so the receiver's custom fetcher f1 is entered only when it is f2.
C3_ExtendReplaces ==
    \A v \in Invocations :
        v.hook \in Extended =>
            /\ v.inv.trace[1] = ExtendOf(v.hook).fetcher
            /\ v.inv.fetch = "fetch"
            /\ v.inv.trace[Len(v.inv.trace)] = "fetch"
            /\ Range(v.inv.trace) \subseteq
                   {ExtendOf(v.hook).fetcher, "fetcher", "fetch"}

C3_Witness ==
    \E v \in Invocations :
        /\ v.hook \in Extended
        /\ hooks[v.hook].kind = "wishlist"
        /\ ExtendOf(v.hook).recv \in Extended
        /\ ExtendOf(v.hook).fetcher = "viaFetcher"
        /\ ExtendOf(ExtendOf(v.hook).recv).fetcher = "overrideAll"

C6_ChainContinues ==
    /\ Len(hooks) = Len(extends) + 2
    /\ \A h \in DOMAIN hooks : hooks[h].extend = "extendHook"
    /\ \A i \in DOMAIN extends :
           /\ extends[i].hook = i + 2
           /\ hooks[extends[i].hook].customFetcher = extends[i].fetcher
           /\ hooks[extends[i].hook].kind = hooks[extends[i].recv].kind

C6_Witness ==
    \E i, j \in DOMAIN extends :
        /\ extends[j].recv = extends[i].hook
        /\ extends[i].fetcher # extends[j].fetcher
        /\ extends[i].recv <= 2

\* C7: a step that makes an extend call adds the new hook and changes
\* nothing else: no call, read or transport invocation is started, no
\* cache is written, and every hook that existed is as it was.
C7_ExtendFrame ==
    [][Len(extends') > Len(extends) =>
           /\ UNCHANGED <<calls, reads, transportLog, customer, wishlist, server>>
           /\ Len(hooks') = Len(hooks) + 1
           /\ \A h \in DOMAIN hooks : hooks'[h] = hooks[h]]_vars

C7_Witness ==
    \E i \in DOMAIN extends :
        /\ \E c \in Admitted : calls[c].hook = extends[i].recv
        /\ \E j \in DOMAIN extends : extends[j].recv = extends[i].hook

\* C8 as stated: every field of the options handed to a default fetcher,
\* body included, is sent as given.
C8_Original_CallerWins ==
    \A i \in DOMAIN transportLog :
        \A k \in {"url", "method", "query", "body"} :
            transportLog[i].options[k] # Absent =>
                transportLog[i].req[k] = transportLog[i].options[k]

\* C8 amended: in both default fetchers url, method and query are the
\* caller's value when the caller supplies one and the hook default
\* otherwise; the customer fetcher treats body the same way, while the
\* wishlist add-item fetcher always sends body { item } built from the
\* input, whatever body the options name.
C8_MergePrecedence ==
    \A i \in DOMAIN transportLog :
        /\ \A k \in {"url", "method", "query"} :
               transportLog[i].req[k] =
                   IF transportLog[i].options[k] # Absent
                   THEN transportLog[i].options[k]
                   ELSE defaultOpts(transportLog[i].kind)[k]
        /\ transportLog[i].kind = "customer" =>
               transportLog[i].req.body = transportLog[i].options.body
        /\ transportLog[i].kind = "addItem" =>
               transportLog[i].req.body = ItemBody(transportLog[i].item)

C8_Witness ==
    \E i, j \in DOMAIN transportLog :
        /\ transportLog[i].kind = "addItem"
        /\ transportLog[i].options.body = "B"
        /\ transportLog[j].options.url = Absent
        /\ transportLog[j].req.url = "/api/bigcommerce/customers"

====
